---------------------------- MODULE Spec2Model ----------------------------
(***************************************************************************)
(* Model of the tennis simulator's physics core (kokoro456/magnus):        *)
(*   calculateImpact, calculateMagnusForce, predictTrajectory              *)
(*     - src/src/utils/physicsLogic.ts   (the module App.tsx imports)      *)
(*     - src/unnamed/part_006:132-223    (the revised physicsLogic.ts)     *)
(*   TennisBall.reset / onCollide        - src/unnamed/part_005            *)
(*   App.handleSwing, prediction effect  - src/src/App.tsx                 *)
(*                                                                         *)
(* JavaScript numbers are modelled in fixed point over the integers:       *)
(*   length    um        (1e-6 m)      velocity  1e-4 m/s                  *)
(*   accel.    1e-4 m/s2               force     1e-7 N   (mass in grams)  *)
(*   time      ms                      spin      1e-2 rad/s                *)
(*   angle     0.1 degree, radians and pure ratios scaled by 10^4         *)
(*   rpm       1e-4 rpm                efficiency 1e-4 percent             *)
(* Every product that is rescaled rounds to nearest (RoundDiv).            *)
(***************************************************************************)
EXTENDS Integers, Sequences, FiniteSets, TLC

VARIABLES
    \* --- calculateMagnusForce applied to drawn inputs
    mVelocity, mAngularVelocity, mForce,
    \* --- calculateImpact applied to drawn inputs
    iArgs, impactData,
    \* --- one run of predictTrajectory (arguments, locals, position in the loop)
    ver, startPos, startVel, startAngVel, dt, steps,
    i, points, currentPos, currentVel, gravity, ppc,
    \* --- predictTrajectory, object identity: the Vector3 the locals currentPos
    \*     and currentVel refer to, the Vector3 behind each element of points,
    \*     and the array an earlier call returned (still held by its caller)
    posCell, velCell, pointCells, prior,
    \* --- App: React state, the pending timeouts, the clock (ms)
    params, activePreset, ballStartPos, isSwinging, timers, now,
    \* --- App: the arguments the prediction effect last passed to predictTrajectory
    preview,
    \* --- TennisBall: the ref is set once mounted; the physics body
    ballMounted, ball,
    \* --- bookkeeping: swings started, frames since the last reset, the
    \*     arguments of the last reset and the body it overwrote
    nSwings, nEdits, nFrames, lastReset, resetFrom,
    \* --- the calls of api.applyForce made by useFrame in the last frame
    applied,
    \* --- calls of soundManager.playImpact
    nImpacts,
    \* --- the last impact: the parameters and start position its callback used
    \*     and the ones that were current when it fired
    shot,
    \* --- collision response: the ball material's uniforms, the Target's hit
    \*     flag, calls of playScore, contacts delivered and the last of them
    uSquish, uDirection, hit, nScore, nContacts, lastContact

magnusVars == <<mVelocity, mAngularVelocity, mForce>>
impactVars == <<iArgs, impactData>>
predictVars == <<ver, startPos, startVel, startAngVel, dt, steps,
                 i, points, currentPos, currentVel, gravity, ppc,
                 posCell, velCell, pointCells, prior>>
appVars == <<params, activePreset, ballStartPos, isSwinging, timers, now, preview>>
ballVars == <<ballMounted, ball>>
logVars == <<nSwings, nEdits, nFrames, lastReset, resetFrom, applied, nImpacts, shot>>
fxVars == <<uSquish, uDirection, hit, nScore, nContacts, lastContact>>
vars == <<magnusVars, impactVars, predictVars, appVars, ballVars, logVars, fxVars>>

-----------------------------------------------------------------------------
(* Bounds of the model *)

\* predictTrajectory is called with steps in 0..MaxSteps
MaxSteps == 12
\* calculateImpact is called with impactLocation in
\* -MaxLocExcess .. 1 + MaxLocExcess (in tenths)
MaxLocExcess == 2
\* swings started in one run of the App
MaxSwings == 2
\* physics frames between two resets of the ball
MaxFrames == 2
\* changes made through the controls (preset, sliders, spin buttons, gizmo)
MaxEdits == 2
\* contacts the collision solver reports in one run
MaxContacts == 2
\* clock ticks of 50 ms in one run of the collision response
MaxTicks == 12

-----------------------------------------------------------------------------
(* Fixed-point arithmetic *)

Abs(a) == IF a < 0 THEN -a ELSE a

\* a / b rounded to nearest, b > 0
RoundDiv(a, b) ==
    IF a >= 0 THEN (a + b \div 2) \div b ELSE -((b \div 2 - a) \div b)

\* a * b / c rounded, without forming a * b (c > 0, |b| * c < 2^31)
MulDiv(a, b, c) ==
    LET q == Abs(a) \div c
        r == Abs(a) % c
        m == q * b + RoundDiv(r * b, c)
    IN  IF a >= 0 THEN m ELSE -m

\* product of a value with a ratio scaled by 10^4
Mul(a, b) == MulDiv(a, b, 10000)

Vec(a, b, c) == [x |-> a, y |-> b, z |-> c]
Zero3 == Vec(0, 0, 0)

\* THREE.Vector3.crossVectors(a, b), each product rescaled by c
crossVectors(a, b, c) ==
    Vec(MulDiv(b.z, a.y, c) - MulDiv(b.y, a.z, c),
        MulDiv(b.x, a.z, c) - MulDiv(b.z, a.x, c),
        MulDiv(b.y, a.x, c) - MulDiv(b.x, a.y, c))

\* THREE.MathUtils.degToRad: tenths of a degree -> radians * 10^4
degToRad(deg) == RoundDiv(deg * 31416, 1800)

\* Math.sin, Math.cos on radians * 10^4 (|x| < 1.6 rad), result * 10^4
Sin(x) ==
    LET x2 == Mul(x, x)
        x3 == Mul(x2, x)
        x5 == Mul(x3, x2)
        x7 == Mul(x5, x2)
    IN  x - RoundDiv(x3, 6) + RoundDiv(x5, 120) - RoundDiv(x7, 5040)

Cos(x) ==
    LET x2 == Mul(x, x)
        x4 == Mul(x2, x2)
        x6 == Mul(x4, x2)
    IN  10000 - RoundDiv(x2, 2) + RoundDiv(x4, 24) - RoundDiv(x6, 720)

-----------------------------------------------------------------------------
(* physicsLogic.ts: the two versions in the repository *)

Versions == {"physicsLogic", "part_006"}

AIR_DENSITY == 1225         \* g/m^3
BALL_RADIUS == 33000        \* um
BALL_MASS == 57             \* g
\* Math.PI * BALL_RADIUS * BALL_RADIUS, in mm^2
BALL_AREA == RoundDiv(314159 * ((BALL_RADIUS \div 1000) * (BALL_RADIUS \div 1000)), 100000)

baseCOR == 8500             \* 0.85
\* spinFactor, liftCoefficient (in 1e-4) of each version
spinFactor(v) == IF v = "physicsLogic" THEN 500 ELSE 600
liftCoefficient(v) == IF v = "physicsLogic" THEN 4 ELSE 6


-----------------------------------------------------------------------------
(* calculateImpact(racketSpeed, racketAngle, swingPathAngle, impactLocation) *)
(*   racketSpeed 1e-4 m/s, angles 0.1 deg, impactLocation 1e-3              *)

\* the restitution growing with the off-centre distance
impactCOR_Growing(impactLocation) == Mul(baseCOR, 10000 + 5 * impactLocation)
\* const cor = baseCOR * (1 - impactLocation * 0.5)
impactCOR(impactLocation) == Mul(baseCOR, 10000 - 5 * impactLocation)

\* the tangential speed taken from the sum of the two angles
tangentialSpeed_Sum(racketSpeed, rAngleRad, sPathRad) ==
    Mul(racketSpeed, Sin(rAngleRad + sPathRad))
\* const tangentialSpeed = racketSpeed * Math.sin(rAngleRad - sPathRad)
tangentialSpeed(racketSpeed, rAngleRad, sPathRad) ==
    Mul(racketSpeed, Sin(rAngleRad - sPathRad))

\* const rpm = tangentialSpeed * spinFactor * (1 - impactLocation * 0.3)
impactRpm(v, racketSpeed, rAngleRad, sPathRad, impactLocation) ==
    Mul(tangentialSpeed(racketSpeed, rAngleRad, sPathRad) * spinFactor(v),
        10000 - 3 * impactLocation)

\* const launchSpeed = racketSpeed * (1 + cor) * Math.cos(rAngleRad - sPathRad)
launchSpeed(racketSpeed, cor, rAngleRad, sPathRad) ==
    Mul(Mul(racketSpeed, 10000 + cor), Cos(rAngleRad - sPathRad))

\* const launchAngleRad = sPathRad + (rAngleRad - sPathRad) * 0.4
launchAngleRad(rAngleRad, sPathRad) == sPathRad + Mul(rAngleRad - sPathRad, 4000)

calculateImpact(v, racketSpeed, racketAngle, swingPathAngle, impactLocation) ==
    LET cor == impactCOR(impactLocation)
        rAngleRad == degToRad(racketAngle)
        sPathRad == degToRad(swingPathAngle)
        speed == launchSpeed(racketSpeed, cor, rAngleRad, sPathRad)
        angle == launchAngleRad(rAngleRad, sPathRad)
        vy == Mul(speed, Sin(angle))
        vz == -Mul(speed, Cos(angle))
    IN  [velocity |-> Vec(0, vy, vz),
         rpm |-> impactRpm(v, racketSpeed, rAngleRad, sPathRad, impactLocation),
         energyTransferEfficiency |-> cor * 100]

-----------------------------------------------------------------------------
(* calculateMagnusForce(velocity, angularVelocity) *)

\* liftCoefficient * AIR_DENSITY * BALL_AREA, as 1e-7 N per 1e-2 rad*m/s^2, * 10^4
magnusScalar(v) == RoundDiv(liftCoefficient(v) * AIR_DENSITY * BALL_AREA, 10000)

multiplyScalar(a, s) == Vec(Mul(a.x, s), Mul(a.y, s), Mul(a.z, s))

\* the two vectors added where the code takes their cross product
calculateMagnusForce_Added(v, velocity, angularVelocity) ==
    multiplyScalar(Vec(angularVelocity.x + velocity.x, angularVelocity.y + velocity.y,
                       angularVelocity.z + velocity.z), magnusScalar(v))

calculateMagnusForce(v, velocity, angularVelocity) ==
    LET magnusDirection == crossVectors(angularVelocity, velocity, 10000)
    IN  multiplyScalar(magnusDirection, magnusScalar(v))

-----------------------------------------------------------------------------
(* predictTrajectory(startPos, startVel, startAngVel, dt, steps) *)

addVectors(a, b) == Vec(a.x + b.x, a.y + b.y, a.z + b.z)
\* a.multiplyScalar(BALL_MASS), BALL_MASS in kg
timesMass(a) == Vec(MulDiv(a.x, BALL_MASS, 1000), MulDiv(a.y, BALL_MASS, 1000),
                    MulDiv(a.z, BALL_MASS, 1000))
\* a.divideScalar(BALL_MASS)
overMass(a) == Vec(MulDiv(a.x, 1000, BALL_MASS), MulDiv(a.y, 1000, BALL_MASS),
                   MulDiv(a.z, 1000, BALL_MASS))
\* acceleration (1e-7 m/s^2) .multiplyScalar(dt): a velocity increment
accelTimesDt(a, t) == Vec(MulDiv(a.x, t, 1000000), MulDiv(a.y, t, 1000000),
                          MulDiv(a.z, t, 1000000))
\* velocity .multiplyScalar(dt): a position increment
velTimesDt(a, t) == Vec(RoundDiv(a.x * t, 10), RoundDiv(a.y * t, 10),
                        RoundDiv(a.z * t, 10))

\* gravity with the sign of the vertical axis slipped
gravity0_Up == Vec(0, 98100000, 0)
\* new THREE.Vector3(0, -9.81, 0), in 1e-7 m/s^2
gravity0 == Vec(0, -98100000, 0)

\* physicsLogic.ts:111 multiplies the gravity vector in place;
\* part_006:203 multiplies a clone
gravityAfter(v, g) == IF v = "physicsLogic" THEN timesMass(g) ELSE g

\* the velocity after one pass of the loop body
nextVel(v, vel, angVel, g, t) ==
    LET magnus == calculateMagnusForce(v, vel, angVel)
        totalForce == addVectors(timesMass(g), magnus)
        acceleration == overMass(totalForce)
    IN  addVectors(vel, accelTimesDt(acceleration, t))

\* the position advanced with the velocity the pass started with
nextPos_OldVelocity(pos, vel0, vel1, t) == addVectors(pos, velTimesDt(vel0, t))
\* currentPos.add(currentVel.clone().multiplyScalar(dt)), after currentVel was
\* updated: vel0 is the velocity before the pass, vel1 the updated one
nextPos(pos, vel0, vel1, t) == addVectors(pos, velTimesDt(vel1, t))

\* if (currentPos.y < BALL_RADIUS)
grounded(pos) == pos.y < BALL_RADIUS
\* a bounds test that looks at the lateral axis only
outOfCourt_Lateral(v, pos) == v = "part_006" /\ Abs(pos.x) > 20000000
\* part_006:219  if (Math.abs(currentPos.z) > 40 || Math.abs(currentPos.x) > 20)
outOfCourt(v, pos) ==
    v = "part_006" /\ (Abs(pos.z) > 40000000 \/ Abs(pos.x) > 20000000)
\* part_006:214 pushes the grounded position before the break
pushesGrounded(v) == v = "part_006"

\* the bounds test placed before the ground test
stopReason_BoundsFirst(v, pos) ==
    IF outOfCourt(v, pos) THEN "break_bounds"
    ELSE IF grounded(pos) THEN "break_ground"
    ELSE "loop"
\* the two tests that end a pass, in the order the loop body makes them:
\* ground (break), then bounds (break), else the loop goes on
stopReason(v, pos) ==
    IF grounded(pos) THEN "break_ground"
    ELSE IF outOfCourt(v, pos) THEN "break_bounds"
    ELSE "loop"

\* for (let i = 0; i < steps; i++): a loop test that lets one pass too many through
loopCondition_OffByOne(k, n) == k <= n
\* for (let i = 0; i < steps; i++)
loopCondition(k, n) == k < n

\* x.clone() handing back x itself
clone_SameObject(cell, fresh) == cell
\* x.clone(): a new Vector3, named `fresh`, with the value of the one named `cell`
clone(cell, fresh) == fresh

\* an array of Vector3 after the object `cell` was changed in place to `val`:
\* the elements that are that object show the new value
afterWrite(pts, cells, cell, val) ==
    [k \in 1..Len(pts) |-> IF cells[k] = cell THEN val ELSE pts[k]]

\* one pass of the for loop; currentVel.add and currentPos.add change the
\* objects the locals refer to
PredictIterate ==
    /\ ppc = "loop"
    /\ loopCondition(i, steps)
    /\ \E vel1 \in {nextVel(ver, currentVel, startAngVel, gravity, dt)} :
       \E pos1 \in {nextPos(currentPos, currentVel, vel1, dt)} :
       \E pushed \in {Append(points, currentPos)} :
       \E pushedCells \in {Append(pointCells, clone(posCell, "own"))} :
           /\ gravity' = gravityAfter(ver, gravity)
           /\ currentVel' = vel1
           /\ startVel' = IF velCell = "startVel" THEN vel1 ELSE startVel
           /\ currentPos' = pos1
           /\ startPos' = IF posCell = "startPos" THEN pos1 ELSE startPos
           /\ ppc' = stopReason(ver, pos1)
           /\ pointCells' = IF ppc' = "break_ground" /\ pushesGrounded(ver)
                               THEN Append(pushedCells, clone(posCell, "own"))
                               ELSE pushedCells
           /\ points' = IF ppc' = "break_ground" /\ pushesGrounded(ver)
                           THEN Append(afterWrite(pushed, pushedCells, posCell, pos1), pos1)
                           ELSE afterWrite(pushed, pushedCells, posCell, pos1)
           /\ prior' = IF prior = <<>> THEN prior
                       ELSE <<[pts |-> afterWrite(prior[1].pts, prior[1].cells,
                                                  posCell, pos1),
                               cells |-> prior[1].cells]>>
           /\ i' = IF ppc' = "loop" THEN i + 1 ELSE i
    /\ UNCHANGED <<ver, startAngVel, dt, steps, posCell, velCell>>
    /\ UNCHANGED <<magnusVars, impactVars, fxVars, appVars, ballVars, logVars>>

\* the loop condition fails: return points
PredictExhausted ==
    /\ ppc = "loop"
    /\ ~loopCondition(i, steps)
    /\ ppc' = "exhausted"
    /\ UNCHANGED <<ver, startPos, startVel, startAngVel, dt, steps,
                   i, points, currentPos, currentVel, gravity,
                   posCell, velCell, pointCells, prior>>
    /\ UNCHANGED <<magnusVars, impactVars, fxVars, appVars, ballVars, logVars>>

\* the function has returned `points`
Returned == ppc \in {"break_ground", "break_bounds", "exhausted"}
\* passes of the loop body executed so far
Executed == IF ppc \in {"break_ground", "break_bounds"} THEN i + 1 ELSE i

-----------------------------------------------------------------------------
(* App.tsx and TennisBall.tsx: state after the first render *)

\* PRESETS: racketSpeed km/h, angles 0.1 deg, impactLocation 1e-3
PRESETS ==
    [Forehand |-> [racketSpeed |-> 90, racketAngle |-> -50, swingPathAngle |-> 200,
                   impactLocation |-> 100, spinType |-> "Topspin"],
     Backhand |-> [racketSpeed |-> 80, racketAngle |-> -20, swingPathAngle |-> 150,
                   impactLocation |-> 0, spinType |-> "Topspin"],
     Volley   |-> [racketSpeed |-> 50, racketAngle |-> 50, swingPathAngle |-> -100,
                   impactLocation |-> 0, spinType |-> "Flat"],
     Serve    |-> [racketSpeed |-> 120, racketAngle |-> -150, swingPathAngle |-> -50,
                   impactLocation |-> 200, spinType |-> "Flat"]]
PresetNames == {"Forehand", "Backhand", "Volley", "Serve"}

\* const kmhToMs = (kmh) => kmh / 3.6
kmhToMs(kmh) == RoundDiv(kmh * 100000, 36)

\* const angularSpeedRad = (impactData.rpm * 2 * Math.PI) / 60
angularSpeedRad(rpm) == RoundDiv(Mul(RoundDiv(rpm * 2, 100), 31416), 60)

\* a spin axis that leaves the X axis for a slice
spinAxis_Tilted(p) ==
    IF p.spinType = "Slice" THEN Vec(0, 1, 0)
    ELSE IF p.swingPathAngle < p.racketAngle THEN Vec(1, 0, 0)
    ELSE Vec(-1, 0, 0)
\* spinAxis: (-1, 0, 0), or (1, 0, 0) for Slice or a path below the face
spinAxis(p) ==
    IF p.spinType = "Slice" THEN Vec(1, 0, 0)
    ELSE IF p.swingPathAngle < p.racketAngle THEN Vec(1, 0, 0)
    ELSE Vec(-1, 0, 0)

\* the prediction effect (App.tsx:89-104), up to its call of predictTrajectory:
\* the start position, velocity and angular velocity it passes
predictionStart(v, p, sp) ==
    LET impact == calculateImpact(v, kmhToMs(p.racketSpeed), p.racketAngle,
                                  p.swingPathAngle, p.impactLocation)
        w == angularSpeedRad(impact.rpm)
        axis == spinAxis(p)
    IN  [startPos |-> sp, startVel |-> impact.velocity,
         startAngVel |-> Vec(axis.x * w, axis.y * w, axis.z * w)]

\* useSphere: position prop [0, 1, 11], at rest
ball0 == [position |-> Vec(0, 1000000, 11000000), velocity |-> Zero3,
          angularVelocity |-> Zero3, rotation |-> Zero3]

InitApp ==
    /\ params = PRESETS.Forehand
    /\ activePreset = "Forehand"
    /\ ballStartPos = Vec(0, 1000000, 11000000)
    /\ preview = predictionStart(ver, PRESETS.Forehand, Vec(0, 1000000, 11000000))
    /\ isSwinging = FALSE
    /\ timers = <<>>
    /\ now = 0
    /\ ballMounted = FALSE
    /\ ball = ball0
    /\ nSwings = 0 /\ nEdits = 0 /\ nFrames = 0 /\ lastReset = <<>> /\ resetFrom = <<>>
    /\ applied = <<>> /\ nImpacts = 0 /\ shot = <<>>
    \* shaderMaterial({ uSquish: 0, uDirection: new THREE.Vector3(0, 1, 0), ... })
    /\ uSquish = 0 /\ uDirection = Vec(0, 10000, 0)
    /\ hit = FALSE /\ nScore = 0 /\ nContacts = 0 /\ lastContact = <<>>

StartPositions ==
    { Vec(0, 1000000, 11000000),       \* App.tsx:66 ball start (0, 1, 11)
      Vec(0, 2800000, 11000000),       \* App.tsx:77 serve (0, 2.8, 11)
      Vec(0, 20000, 11000000),         \* already below the ball radius
      Vec(0, 1000000, -38500000),      \* two passes short of the far bound
      Vec(0, 60000, -39500000),        \* low and just inside the far bound
      Vec(25000000, 1000000, 0) }      \* outside the lateral bound
StartVelocities ==
    { Vec(0, -50000, 0),               \* (0, -5, 0)
      Vec(0, 300000, 0),               \* straight up
      Vec(0, 78000, -443000),          \* a forehand launch
      Vec(0, -20000, -450000) }
StartSpins ==
    { Zero3, Vec(50000, 0, 0), Vec(-50000, 0, 0) }
TimeSteps == {16, 20}

\* a result is <<>> until the function has returned, then <<value>>
IdleMagnus == mVelocity = Zero3 /\ mAngularVelocity = Zero3 /\ mForce = <<>>
IdleImpact ==
    /\ iArgs = [racketSpeed |-> 0, racketAngle |-> 0, swingPathAngle |-> 0,
                impactLocation |-> 0]
    /\ impactData = <<>>
IdlePredict ==
    /\ startPos = Zero3 /\ startVel = Zero3
    /\ startAngVel = Zero3 /\ dt = 20 /\ steps = 0
    /\ i = 0 /\ points = <<>> /\ currentPos = Zero3 /\ currentVel = Zero3
    /\ gravity = gravity0 /\ ppc = "idle"
    /\ posCell = "currentPos" /\ velCell = "currentVel"
    /\ pointCells = <<>> /\ prior = <<>>

\* predictTrajectory is entered: the locals before the first loop test
PredictCall ==
    /\ ppc = "idle"
    /\ startPos' \in StartPositions
    /\ startVel' \in StartVelocities
    /\ startAngVel' \in StartSpins
    /\ dt' \in TimeSteps
    /\ steps' \in 0..MaxSteps
    /\ i' = 0
    /\ points' = <<>>
    /\ currentPos' = startPos'
    /\ currentVel' = startVel'
    /\ gravity' = gravity0
    /\ posCell' = clone("startPos", "currentPos")
    /\ velCell' = clone("startVel", "currentVel")
    /\ pointCells' = <<>>
    /\ prior' = <<>>
    /\ ppc' = "loop"
    /\ UNCHANGED <<ver, magnusVars, impactVars, fxVars, appVars, ballVars, logVars>>

\* predictTrajectory is called again with the same argument objects, while the
\* caller still holds the array the first call returned
PredictAgain ==
    /\ Returned
    /\ prior = <<>>
    /\ prior' = <<[pts |-> points,
                   cells |-> [k \in 1..Len(pointCells) |->
                                 IF pointCells[k] = "currentPos" THEN "own"
                                 ELSE pointCells[k]]]>>
    /\ i' = 0
    /\ points' = <<>>
    /\ pointCells' = <<>>
    /\ currentPos' = startPos
    /\ currentVel' = startVel
    /\ gravity' = gravity0
    /\ posCell' = clone("startPos", "currentPos")
    /\ velCell' = clone("startVel", "currentVel")
    /\ ppc' = "loop"
    /\ UNCHANGED <<ver, startPos, startVel, startAngVel, dt, steps>>
    /\ UNCHANGED <<magnusVars, impactVars, fxVars, appVars, ballVars, logVars>>

InitPredict == ver \in Versions /\ IdlePredict /\ IdleMagnus /\ IdleImpact /\ InitApp

NextPredict == PredictCall \/ PredictAgain \/ PredictIterate \/ PredictExhausted
SpecPredict == InitPredict /\ [][NextPredict]_vars

-----------------------------------------------------------------------------
(* calculateMagnusForce on drawn inputs *)

MagnusComponents == {-300000, 0, 50000, 300000}
SpinComponents == {-100000, 0, 50000}

InitMagnus ==
    /\ ver \in Versions
    /\ mVelocity \in {Vec(a, b, c) : a \in {0, 50000}, b, c \in MagnusComponents}
    /\ mAngularVelocity \in {Vec(a, b, c) : a, b, c \in SpinComponents}
    /\ mForce = <<>>
    /\ IdleImpact /\ IdlePredict /\ InitApp

ApplyMagnus ==
    /\ mForce = <<>>
    /\ mForce' = <<calculateMagnusForce(ver, mVelocity, mAngularVelocity)>>
    /\ UNCHANGED <<mVelocity, mAngularVelocity, impactVars, fxVars, predictVars, appVars, ballVars,
                   logVars>>

NextMagnus == ApplyMagnus
SpecMagnus == InitMagnus /\ [][NextMagnus]_vars

-----------------------------------------------------------------------------
(* calculateImpact on drawn inputs *)

ImpactSpeeds == {kmhToMs(50), kmhToMs(90), kmhToMs(150)}
\* the Impact Angle slider: -20 .. 20 degrees
ImpactAngles == {-200, -150, -50, -20, 0, 50, 200}
\* the presets' swing path angles, and a flat path
ImpactPathAngles == {-100, -50, 0, 150, 200}
ImpactLocations == {k * 100 : k \in (-10 * MaxLocExcess)..(10 + 10 * MaxLocExcess)}

InitImpact ==
    /\ ver \in Versions
    /\ iArgs \in [racketSpeed : ImpactSpeeds, racketAngle : ImpactAngles,
                  swingPathAngle : ImpactPathAngles,
                  impactLocation : ImpactLocations]
    /\ impactData = <<>>
    /\ IdleMagnus /\ IdlePredict /\ InitApp

ApplyImpact ==
    /\ impactData = <<>>
    /\ impactData' = <<calculateImpact(ver, iArgs.racketSpeed, iArgs.racketAngle,
                                       iArgs.swingPathAngle, iArgs.impactLocation)>>
    /\ UNCHANGED <<iArgs, magnusVars, fxVars, predictVars, appVars, ballVars, logVars>>

NextImpact == ApplyImpact
SpecImpact == InitImpact /\ [][NextImpact]_vars

-----------------------------------------------------------------------------
(* App.tsx: controls, handleSwing and its two timeouts; TennisBall.tsx: reset *)
(* and the per-frame Magnus force. Of the prediction effect the model keeps  *)
(* the arguments it passes to predictTrajectory (preview); the analytics     *)
(* card (lastImpactData) and the sounds are not part of this model.          *)

\* TennisBall is mounted: ballRef.current is set
MountBall ==
    /\ ~ballMounted
    /\ ballMounted' = TRUE
    /\ UNCHANGED <<ball, appVars, logVars, magnusVars, impactVars, fxVars, predictVars, ver>>

\* applyPreset(name)
ApplyPreset ==
    /\ nEdits < MaxEdits
    /\ \E name \in PresetNames :
          /\ activePreset' = name
          /\ params' = PRESETS[name]
          /\ ballStartPos' = IF name = "Serve" THEN Vec(0, 2800000, 11000000)
                             ELSE Vec(0, 1000000, 11000000)
    /\ preview' = predictionStart(ver, params', ballStartPos')
    /\ nEdits' = nEdits + 1
    /\ UNCHANGED <<isSwinging, timers, now, ballVars, nSwings, nFrames, lastReset,
                   resetFrom, applied, nImpacts, shot, magnusVars, impactVars, fxVars, predictVars, ver>>

\* updateParam(key, value): the speed and angle sliders, the spin buttons
UpdateParam ==
    /\ nEdits < MaxEdits
    /\ \/ \E v \in {30, 150} : params' = [params EXCEPT !.racketSpeed = v]
       \/ \E v \in {-200, 200} : params' = [params EXCEPT !.racketAngle = v]
       \/ \E v \in {"Topspin", "Slice"} : params' = [params EXCEPT !.spinType = v]
    /\ preview' = predictionStart(ver, params', ballStartPos)
    /\ nEdits' = nEdits + 1
    /\ UNCHANGED <<activePreset, ballStartPos, isSwinging, timers, now, ballVars,
                   nSwings, nFrames, lastReset, resetFrom, applied, nImpacts, shot, magnusVars, impactVars, fxVars,
                   predictVars, ver>>

\* TransformControls onObjectChange: the gizmo moves the start position
GizmoPositions == {Vec(500000, 1500000, 10000000), Vec(0, 0, 11000000)}
MoveBall ==
    /\ nEdits < MaxEdits
    /\ \E newPos \in GizmoPositions :
          ballStartPos' = IF newPos.y < 100000 THEN [newPos EXCEPT !.y = 100000]
                          ELSE newPos
    /\ preview' = predictionStart(ver, params, ballStartPos')
    /\ nEdits' = nEdits + 1
    /\ UNCHANGED <<params, activePreset, isSwinging, timers, now, ballVars,
                   nSwings, nFrames, lastReset, resetFrom, applied, nImpacts, shot, magnusVars, impactVars, fxVars,
                   predictVars, ver>>

\* the delay without its floor of 150 ms
swingDelay_NoFloor(p) == 400 - p.racketSpeed * 2
\* const delay = Math.max(150, 400 - params.racketSpeed * 2)
swingDelay(p) == IF 400 - p.racketSpeed * 2 > 150 THEN 400 - p.racketSpeed * 2 ELSE 150

\* a button that is never disabled
buttonDisabled_Never == FALSE
\* <button onClick={handleSwing} disabled={isSwinging}>
buttonDisabled == isSwinging

\* handleSwing, clicked while the button is enabled; nSwings counts the swings
\* started, a click before the ball is mounted returns at once
HandleSwing ==
    /\ ~buttonDisabled
    /\ nSwings < MaxSwings
    /\ IF ~ballMounted
          THEN UNCHANGED <<isSwinging, timers, nSwings>>
          ELSE /\ isSwinging' = TRUE
               /\ nSwings' = nSwings + 1
               /\ timers' = timers \o
                    << [kind |-> "impact", due |-> now + swingDelay(params),
                        params |-> params, ballStartPos |-> ballStartPos],
                       [kind |-> "swingEnd", due |-> now + swingDelay(params) + 400,
                        params |-> params, ballStartPos |-> ballStartPos] >>
    /\ UNCHANGED <<params, activePreset, ballStartPos, now, preview, ballVars, nEdits, nFrames,
                   lastReset, resetFrom, applied, nImpacts, shot, magnusVars, impactVars, fxVars, predictVars, ver>>

\* a callback that reads the state of the latest render
closureValue_Current(captured, current) == current
\* the callback passed to setTimeout reads params and ballStartPos of the
\* render in which handleSwing was created (useCallback [params, ballStartPos])
closureValue(captured, current) == captured

\* a launch with no spin
swingState_NoSpin(v, p, sp) ==
    [pos |-> sp,
     vel |-> calculateImpact(v, kmhToMs(p.racketSpeed), p.racketAngle,
                             p.swingPathAngle, p.impactLocation).velocity,
     angVel |-> Zero3]
\* the position, velocity and angular velocity a swing with parameters p gives
\* the ball (App.tsx:117-130)
swingState(v, p, sp) ==
    LET impact == calculateImpact(v, kmhToMs(p.racketSpeed), p.racketAngle,
                                  p.swingPathAngle, p.impactLocation)
        w == angularSpeedRad(impact.rpm)
        axis == spinAxis(p)
    IN  [pos |-> sp, vel |-> impact.velocity,
         angVel |-> Vec(axis.x * w, axis.y * w, axis.z * w)]

\* reset that leaves the body's rotation as it was
reset_KeepsRotation(b, pos, vel, angVel) ==
    [position |-> pos, velocity |-> vel, angularVelocity |-> angVel,
     rotation |-> b.rotation]
\* TennisBall reset(pos, vel, angVel) on the body b
reset(b, pos, vel, angVel) ==
    [position |-> pos, velocity |-> vel, angularVelocity |-> angVel,
     rotation |-> Zero3]

\* the pending timeout that fires next: the earliest due, the first set among equals
NextTimer ==
    CHOOSE k \in 1..Len(timers) :
        \A j \in 1..Len(timers) :
            timers[j].due > timers[k].due \/ (timers[j].due = timers[k].due /\ j >= k)
WithoutTimer(k) == SubSeq(timers, 1, k - 1) \o SubSeq(timers, k + 1, Len(timers))

\* the first timeout of handleSwing fires: the impact is applied
FireImpact ==
    /\ timers # <<>>
    /\ timers[NextTimer].kind = "impact"
    /\ \E t \in {timers[NextTimer]} :
       \E a \in {swingState(ver, closureValue(t.params, params),
                             closureValue(t.ballStartPos, ballStartPos))} :
          /\ shot' = <<[params |-> closureValue(t.params, params),
                        ballStartPos |-> closureValue(t.ballStartPos, ballStartPos),
                        paramsNow |-> params, ballStartPosNow |-> ballStartPos]>>
          /\ now' = IF t.due > now THEN t.due ELSE now
          \* soundManager.playImpact()
          /\ nImpacts' = nImpacts + 1
          /\ IF ballMounted
                THEN /\ ball' = reset(ball, a.pos, a.vel, a.angVel)
                     /\ lastReset' = <<a>>
                     /\ resetFrom' = <<ball>>
                     /\ nFrames' = 0
                ELSE UNCHANGED <<ball, lastReset, resetFrom, nFrames>>
    /\ timers' = WithoutTimer(NextTimer)
    /\ UNCHANGED <<params, activePreset, ballStartPos, isSwinging, preview, ballMounted,
                   nSwings, nEdits, applied, magnusVars, impactVars, fxVars, predictVars, ver>>

\* the second timeout of handleSwing fires: setIsSwinging(false)
FireSwingEnd ==
    /\ timers # <<>>
    /\ timers[NextTimer].kind = "swingEnd"
    /\ now' = IF timers[NextTimer].due > now THEN timers[NextTimer].due ELSE now
    /\ isSwinging' = FALSE
    /\ timers' = WithoutTimer(NextTimer)
    /\ UNCHANGED <<params, activePreset, ballStartPos, preview, ballVars, logVars,
                   magnusVars, impactVars, fxVars, predictVars, ver>>

\* v.lengthSq(), in (cm/s)^2
lengthSq(a) ==
    RoundDiv(a.x, 100) * RoundDiv(a.x, 100) + RoundDiv(a.y, 100) * RoundDiv(a.y, 100)
        + RoundDiv(a.z, 100) * RoundDiv(a.z, 100)

\* a test that lets every frame through
appliesForce_Always(b) == b = b
\* if (v.lengthSq() > 0.1)
appliesForce(b) == lengthSq(b.velocity) > 1000

\* useFrame: the force applied to the body this frame (v.lengthSq() > 0.1)
frameForce(v, b) ==
    IF appliesForce(b)
        THEN calculateMagnusForce(v, b.velocity, b.angularVelocity)
        ELSE Zero3

\* <Physics gravity={[0, -9.81, 0]}>: the engine advances the free body by one
\* step of 16 ms under gravity and the applied force; the rotation (1e-5 rad)
\* follows the angular velocity
worldStep(b, force) ==
    LET vel1 == addVectors(b.velocity,
                           accelTimesDt(overMass(addVectors(timesMass(gravity0), force)), 16))
    IN  [position |-> addVectors(b.position, velTimesDt(vel1, 16)),
         velocity |-> vel1,
         angularVelocity |-> b.angularVelocity,
         rotation |-> Vec(b.rotation.x + b.angularVelocity.x * 16,
                          b.rotation.y + b.angularVelocity.y * 16,
                          b.rotation.z + b.angularVelocity.z * 16)]

\* one rendered frame: useFrame applies the Magnus force, the world steps
Frame ==
    /\ ballMounted
    /\ nFrames < MaxFrames
    /\ \E f \in {frameForce(ver, ball)} :
          /\ ball' = worldStep(ball, f)
          \* api.applyForce([magnusForce.x, magnusForce.y, magnusForce.z], [0, 0, 0])
          /\ applied' = IF appliesForce(ball)
                           THEN <<[force |-> f, at |-> Zero3]>> ELSE <<>>
    /\ nFrames' = nFrames + 1
    /\ UNCHANGED <<ballMounted, appVars, nSwings, nEdits, lastReset, resetFrom, nImpacts,
                   shot,
                   magnusVars, impactVars, fxVars, predictVars, ver>>

Init == ver \in Versions /\ IdleMagnus /\ IdleImpact /\ IdlePredict /\ InitApp
Next ==
    \/ MountBall \/ ApplyPreset \/ UpdateParam \/ MoveBall
    \/ HandleSwing \/ FireImpact \/ FireSwingEnd \/ Frame
Spec == Init /\ [][Next]_vars

-----------------------------------------------------------------------------
(* Collision response: TennisBall.onCollide (part_005:93-114) and            *)
(* Target.onCollide (Target.tsx:13-20), driven by the contacts the collision *)
(* solver reports. uSquish is scaled by 10^4, normals are unit vectors       *)
(* scaled by 10^4. The clock advances in ticks of 50 ms; a timeout fires     *)
(* once the clock has reached its due time, before the clock moves on.       *)

\* e.contact.impactVelocity, 1e-4 m/s
ImpactVelocities == {0, 10000, 20000, 100000, -30000}
\* e.contact.contactNormal
ContactNormals == {Vec(0, 10000, 0), Vec(6000, 8000, 0)}

\* the squish with no upper limit
squishAmount_Unclamped(relativeVelocity) == Mul(Abs(relativeVelocity), 500)
\* const squishAmount = Math.min(Math.abs(relativeVelocity) * 0.05, 0.4)
squishAmount(relativeVelocity) ==
    IF Mul(Abs(relativeVelocity), 500) < 4000
        THEN Mul(Abs(relativeVelocity), 500) ELSE 4000

\* the target reacts to every contact
targetReacts_Always(impactVelocity) == impactVelocity >= impactVelocity
\* if (e.contact.impactVelocity > 1)
targetReacts(impactVelocity) == impactVelocity > 10000

\* the larger of the old and the new value is kept
assign_Max(old, new) == IF old > new THEN old ELSE new
\* materialRef.current.uSquish = squishAmount: the old value is replaced
assign(old, new) == new

\* a timeout of the collision response is due
TimerDue == timers # <<>> /\ timers[NextTimer].due <= now

\* TennisBall.onCollide: the body exists once the ball is mounted, and then
\* materialRef.current is set; App passes no onImpact
BallContact ==
    /\ ballMounted
    /\ nContacts < MaxContacts
    /\ \E v \in ImpactVelocities, n \in ContactNormals :
          /\ uSquish' = assign(uSquish, squishAmount(v))
          /\ uDirection' = n
          /\ timers' = Append(timers, [kind |-> "squishReset", due |-> now + 100])
          /\ lastContact' = <<[on |-> "ball", impactVelocity |-> v,
                               contactNormal |-> n, at |-> now,
                               squishBefore |-> uSquish]>>
    /\ nContacts' = nContacts + 1
    /\ UNCHANGED <<hit, nScore, now, params, activePreset, ballStartPos, isSwinging,
                   preview, ballVars, logVars, magnusVars, impactVars, predictVars>>

\* the timeout of TennisBall.onCollide: uSquish = 0
FireSquishReset ==
    /\ TimerDue
    /\ timers[NextTimer].kind = "squishReset"
    /\ uSquish' = IF ballMounted THEN 0 ELSE uSquish
    /\ timers' = WithoutTimer(NextTimer)
    /\ UNCHANGED <<uDirection, hit, nScore, nContacts, lastContact, now, params,
                   activePreset, ballStartPos, isSwinging, preview, ballVars, logVars,
                   magnusVars, impactVars, predictVars>>

\* Target.onCollide; playScore sets a timeout of its own for the second tone
TargetContact ==
    /\ nContacts < MaxContacts
    /\ \E v \in ImpactVelocities :
          /\ IF targetReacts(v)
                THEN /\ hit' = TRUE
                     /\ nScore' = nScore + 1
                     /\ timers' = timers \o
                           << [kind |-> "scoreTone", due |-> now + 100],
                              [kind |-> "hitClear", due |-> now + 500] >>
                ELSE UNCHANGED <<hit, nScore, timers>>
          /\ lastContact' = <<[on |-> "target", impactVelocity |-> v,
                               contactNormal |-> Zero3, at |-> now,
                               squishBefore |-> uSquish]>>
    /\ nContacts' = nContacts + 1
    /\ UNCHANGED <<uSquish, uDirection, now, params, activePreset, ballStartPos,
                   isSwinging, preview, ballVars, logVars, magnusVars, impactVars,
                   predictVars>>

\* a timeout callback that leaves hit as it is
clearedHit_Kept(h) == h
\* the value the timeout callback of Target.onCollide gives hit: setHit(false)
clearedHit(h) == FALSE

\* the timeout of Target.onCollide: setHit(false)
FireHitClear ==
    /\ TimerDue
    /\ timers[NextTimer].kind = "hitClear"
    /\ hit' = clearedHit(hit)
    /\ timers' = WithoutTimer(NextTimer)
    /\ UNCHANGED <<uSquish, uDirection, nScore, nContacts, lastContact, now, params,
                   activePreset, ballStartPos, isSwinging, preview, ballVars, logVars,
                   magnusVars, impactVars, predictVars>>

\* the timeout of playScore: the second tone
FireScoreTone ==
    /\ TimerDue
    /\ timers[NextTimer].kind = "scoreTone"
    /\ timers' = WithoutTimer(NextTimer)
    /\ UNCHANGED <<fxVars, now, params, activePreset, ballStartPos, isSwinging,
                   preview, ballVars, logVars, magnusVars, impactVars, predictVars>>

\* 50 ms pass with no timeout due
Tick ==
    /\ ~TimerDue
    /\ now < MaxTicks * 50
    /\ now' = now + 50
    /\ UNCHANGED <<fxVars, params, activePreset, ballStartPos, isSwinging, timers,
                   preview, ballVars, logVars, magnusVars, impactVars, predictVars>>

InitContact == Init
NextContact ==
    \/ MountBall \/ BallContact \/ FireSquishReset
    \/ TargetContact \/ FireHitClear \/ FireScoreTone \/ Tick
SpecContact == InitContact /\ [][NextContact]_vars

-----------------------------------------------------------------------------
(* Claims about predictTrajectory *)

\* (0, -5, 0) from height 1, inside the court bounds, with no spin at dt = 0.02
FreeFallScenario ==
    /\ startVel = Vec(0, -50000, 0)
    /\ startPos.y = 1000000
    /\ Abs(startPos.x) <= 20000000 /\ Abs(startPos.z) <= 40000000
    /\ startAngVel = Zero3
    /\ dt = 20

\* C1: predictTrajectory terminates for every input: every pass of the loop
\* either returns or uses up one of the `steps` passes (i counts them and never
\* exceeds steps), so at most `steps` passes run, and the trajectory never has
\* more than steps + 1 points.
C1_Terminates ==
    /\ [](i <= steps /\ Executed <= steps /\ Len(points) <= steps + 1)
    /\ [][ppc = "loop" => (Returned' \/ (ppc' = "loop" /\ i' = i + 1))]_vars
\* a climbing ball is cut off by the step limit
C1_Witness ==
    /\ ppc = "exhausted" /\ steps > 0 /\ Len(points) = steps
    /\ currentVel.y > 0 /\ currentPos.y > startPos.y

\* C2 (as claimed): whatever the input, steps = 0 included, the returned
\* trajectory is non-empty and its first point is startPos.
C2_StartPointAlways ==
    Returned => Len(points) >= 1 /\ points[1] = startPos

\* C3 (as claimed): when the run stops on the ground, the grounded position is
\* the last point of the trajectory, so the last point has y <= BALL_RADIUS.
C3_GroundedPointAppended ==
    ppc = "break_ground" =>
        /\ Len(points) >= 1
        /\ points[Len(points)] = currentPos
        /\ points[Len(points)].y <= BALL_RADIUS

\* C4 (as claimed): the free-fall scenario stops on the ground after
\* sqrt(2*(1-ballRadius)/9.81)/dt = 22 passes, give or take 2.
C4_TwentyTwoSteps ==
    (FreeFallScenario /\ ppc = "break_ground") => Executed \in 20..24
\* C4 (amended): the free-fall scenario, started inside the court bounds and
\* given at least 10 steps, stops on the ground after 7 to 10 passes: within 2 of t/dt = 8.3, t the positive root of
\* 1 - 5t - 4.905t^2 = ballRadius.
C4_FreeFallSteps ==
    FreeFallScenario =>
        /\ ppc = "break_ground" => Executed \in 7..10
        /\ (Returned /\ steps >= 10) => ppc = "break_ground"
C4_Witness ==
    FreeFallScenario /\ ppc = "break_ground" /\ Executed = 9 /\ ver = "part_006"

-----------------------------------------------------------------------------
(* Claims about calculateMagnusForce *)

\* C5: with a zero velocity calculateMagnusForce returns the zero vector,
\* whatever the angular velocity.
C5_ZeroVelocityZeroForce ==
    (mForce # <<>> /\ mVelocity = Zero3) => mForce[1] = Zero3
C5_Witness ==
    mForce = <<Zero3>> /\ mVelocity = Zero3 /\ mAngularVelocity.x # 0

-----------------------------------------------------------------------------
(* Claims about calculateImpact *)

ImpactReturned == impactData # <<>>
InRangeLocation(l) == 0 <= l /\ l <= 1000

\* C6: for impactLocation in [0, 1] the efficiency is 0.85*(1 - loc*0.5)*100
\* percent: 85 at 0, 42.5 at 1, strictly less for every larger location.
C6_Efficiency ==
    (ImpactReturned /\ InRangeLocation(iArgs.impactLocation)) =>
        /\ impactData[1].energyTransferEfficiency = 850000 - 425 * iArgs.impactLocation
        /\ \A l \in ImpactLocations :
              (InRangeLocation(l) /\ l > iArgs.impactLocation) =>
                  calculateImpact(ver, iArgs.racketSpeed, iArgs.racketAngle,
                                  iArgs.swingPathAngle, l).energyTransferEfficiency
                      < impactData[1].energyTransferEfficiency
C6_Witness ==
    /\ ImpactReturned /\ iArgs.impactLocation = 1000
    /\ impactData[1].energyTransferEfficiency = 425000

\* C7: when the racket angle equals the swing path angle the returned rpm is
\* exactly 0, for every speed and impact location.
C7_FlatShotNoSpin ==
    (ImpactReturned /\ iArgs.racketAngle = iArgs.swingPathAngle) =>
        impactData[1].rpm = 0
C7_Witness ==
    /\ ImpactReturned /\ iArgs.racketAngle = iArgs.swingPathAngle
    /\ iArgs.racketAngle # 0 /\ iArgs.racketSpeed > 0 /\ impactData[1].rpm = 0

\* C8 (as claimed): 25 m/s, face -5 deg, path 20 deg, location 0.1 gives an
\* upward exit velocity and a positive (topspin) spin rate.
C8_ForehandTopspinPositive ==
    (/\ ImpactReturned
     /\ iArgs = [racketSpeed |-> 250000, racketAngle |-> -50,
                 swingPathAngle |-> 200, impactLocation |-> 100]) =>
        /\ impactData[1].velocity.y > 0
        /\ impactData[1].rpm > 0

\* C10 (as claimed): whatever impactLocation is supplied, the returned
\* efficiency lies within 0 .. 100 percent.
C10_EfficiencyClamped ==
    ImpactReturned =>
        /\ impactData[1].energyTransferEfficiency >= 0
        /\ impactData[1].energyTransferEfficiency <= 1000000

-----------------------------------------------------------------------------
(* Claims about TennisBall.reset *)

\* C9: right after an impact is applied, the body's position, velocity and
\* angular velocity are exactly the values handed to reset and its rotation is
\* (0, 0, 0), whatever the body was before: the state after a reset depends on
\* the arguments alone, so applying the same impact again gives the same state.
C9_ResetOverwrites ==
    (lastReset # <<>> /\ nFrames = 0) =>
        ball = [position |-> lastReset[1].pos, velocity |-> lastReset[1].vel,
                angularVelocity |-> lastReset[1].angVel, rotation |-> Zero3]
\* a second impact with the arguments of the first, applied to a body that has
\* moved and turned since
C9_Witness ==
    /\ nSwings = 2 /\ timers = <<>> /\ nFrames = 0 /\ lastReset # <<>>
    /\ resetFrom[1].rotation # Zero3
    /\ resetFrom[1].position # ball.position
    /\ resetFrom[1].angularVelocity = lastReset[1].angVel

-----------------------------------------------------------------------------
(* Claims about the points of a predicted trajectory *)

\* C11: every point of the trajectory built by predictTrajectory has
\* y >= -BALL_RADIUS: the integrator never records a position more than one
\* ball radius below ground level.
C11_NeverBelowRadius ==
    \A k \in 1..Len(points) : points[k].y >= -BALL_RADIUS

-----------------------------------------------------------------------------
(* Claims about the shot computed from the swing parameters *)

\* a . b, rescaled by 10^4
dot(a, b) == Mul(a.x, b.x) + Mul(a.y, b.y) + Mul(a.z, b.z)

\* C12: for every combination of swing parameters the angular velocity and the
\* exit velocity computed for the shot are perpendicular: the spin is along
\* +X or -X and the exit velocity has x-component exactly 0.
C12_SpinPerpendicular ==
    /\ dot(preview.startAngVel, preview.startVel) = 0
    /\ preview.startVel.x = 0
    /\ preview.startAngVel.y = 0 /\ preview.startAngVel.z = 0
\* a slice set by the spin button, with a spinning, climbing shot
C12_Witness ==
    /\ params.spinType = "Slice" /\ params.racketAngle = -200
    /\ preview.startAngVel.x # 0 /\ preview.startVel.y # 0 /\ preview.startVel.z # 0

-----------------------------------------------------------------------------
(* Claims about the collision response *)

\* the step is a contact on the ball / on the target
IsBallContact == nContacts' = nContacts + 1 /\ lastContact'[1].on = "ball"
IsTargetContact == nContacts' = nContacts + 1 /\ lastContact'[1].on = "target"

\* C13: after every contact on the ball the deformation intensity is
\* min(|impactVelocity| * 0.05, 0.4) and the direction is the contact normal;
\* in every reachable state the intensity lies in [0, 0.4].
C13_SquishClamped ==
    /\ [](uSquish >= 0 /\ uSquish <= 4000)
    /\ [][IsBallContact =>
            /\ uDirection' = lastContact'[1].contactNormal
            /\ uSquish' = IF Abs(lastContact'[1].impactVelocity) * 5 < 400000
                             THEN (Abs(lastContact'[1].impactVelocity) * 5) \div 100
                             ELSE 4000]_vars
\* a contact fast enough to reach the limit, and its deformation still showing
C13_Witness ==
    /\ lastContact # <<>> /\ lastContact[1].on = "ball"
    /\ lastContact[1].impactVelocity = 100000
    /\ uSquish = 4000 /\ uDirection = Vec(6000, 8000, 0)


\* C14: a contact on the ball whose impact speed does not exceed the minimum
\* threshold (here: an impact speed of 0, which exceeds no threshold) emits
\* nothing: intensity and direction stay as they were and no timer is set.
C14_SlowContactNoop ==
    [][(IsBallContact /\ lastContact'[1].impactVelocity = 0) =>
            (uSquish' = uSquish /\ uDirection' = uDirection /\ timers' = timers)]_vars

\* C15: once a contact has set the deformation, and with no further contact on
\* the ball, the intensity keeps its value until the reset scheduled by that
\* contact fires, 100 ms after it, and sets the intensity to 0: whenever the
\* intensity changes without a contact it becomes 0, by a reset that is due
\* now, and no reset scheduled by a later contact is still waiting.
C15_SingleResetAfterWindow ==
    [][(~IsBallContact /\ uSquish' # uSquish) =>
            /\ uSquish' = 0
            /\ timers[NextTimer].kind = "squishReset"
            /\ timers[NextTimer].due = now
            /\ \A j \in 1..Len(timers') :
                  timers'[j].kind = "squishReset" => timers'[j].due <= now]_vars

\* the pending timeouts of one kind
Pending(t, kind) == Cardinality({j \in 1..Len(t) : t[j].kind = kind})

\* C16: a contact on the Target sets hit, plays the score sound once and
\* schedules one 500 ms clear timer if and only if its impact velocity exceeds
\* 1 m/s; a contact at or below 1 m/s leaves hit, the sound and the timers as
\* they were, and nothing else sets hit or plays the score sound.
C16_ScoredIffFast ==
    /\ [][IsTargetContact =>
            IF lastContact'[1].impactVelocity > 10000
                THEN /\ hit' = TRUE
                     /\ nScore' = nScore + 1
                     /\ Pending(timers', "hitClear") = Pending(timers, "hitClear") + 1
                     /\ timers'[Len(timers')] = [kind |-> "hitClear", due |-> now + 500]
                ELSE hit' = hit /\ nScore' = nScore /\ timers' = timers]_vars
    /\ [][(nScore' # nScore \/ (hit' /\ ~hit)) =>
            (IsTargetContact /\ lastContact'[1].impactVelocity > 10000)]_vars
\* a scoring contact followed by a contact at exactly 1 m/s
C16_Witness ==
    /\ nContacts = 2 /\ nScore = 1 /\ hit
    /\ lastContact[1].on = "target" /\ lastContact[1].impactVelocity = 10000
    /\ Pending(timers, "hitClear") = 1

-----------------------------------------------------------------------------
(* Claims about the court bounds of predictTrajectory (part_006:219) *)

\* a position beyond |z| = 40 or |x| = 20
BeyondBounds(pos) ==
    pos.z > 40000000 \/ pos.z < -40000000 \/ pos.x > 20000000 \/ pos.x < -20000000
\* the step is one pass of the loop body
IsPass == ppc = "loop" /\ Len(points') > Len(points)

-----------------------------------------------------------------------------
(* Claims about one integration step of predictTrajectory *)

\* C19: in every pass, whatever its index, the acceleration is
\* (mass * g + Magnus force) / mass with g = -9.81 on the vertical axis: with
\* zero angular velocity the vertical velocity after n passes is
\* startVel.y - 9.81 * n * dt (up to the rounding of n increments) and the
\* other two velocity components are unchanged.
C19_GravityEveryStep ==
    (ppc # "idle" /\ startAngVel = Zero3) =>
        /\ currentVel.x = startVel.x /\ currentVel.z = startVel.z
        /\ Abs(currentVel.y - (startVel.y - RoundDiv(981 * Executed * dt, 10)))
               <= Executed

\* C20: a pass updates the velocity first, from the acceleration at the old
\* velocity, and then the position with the updated velocity; the old position
\* is the point recorded by the pass, so consecutive points differ by the
\* updated velocity times dt.
C20_VelocityBeforePosition ==
    /\ [][IsPass =>
            /\ currentVel' = addVectors(currentVel,
                   accelTimesDt(overMass(addVectors(timesMass(gravity),
                       calculateMagnusForce(ver, currentVel, startAngVel))), dt))
            /\ currentPos' = addVectors(currentPos, velTimesDt(currentVel', dt))
            /\ points'[Len(points) + 1] = currentPos]_vars
    /\ []((ppc = "loop" /\ i >= 1) =>
            currentPos = addVectors(points[Len(points)], velTimesDt(currentVel, dt)))
\* a spinning ball after two passes, its velocity changed on every axis it can
C20_Witness ==
    /\ ppc = "loop" /\ i >= 2 /\ startAngVel # Zero3 /\ Len(points) = i
    /\ currentVel.y # startVel.y /\ currentVel.z # startVel.z


\* C21: predictTrajectory uses the same angular velocity in every pass and
\* changes none of its arguments; the points it has recorded are copies, so no
\* later pass changes a recorded point, and a later call changes no point of
\* the array an earlier call returned.
C21_ArgumentsAndPointsKept ==
    [][ppc # "idle" =>
          /\ startPos' = startPos /\ startVel' = startVel
          /\ startAngVel' = startAngVel
          /\ ppc' # "loop" \/ ppc # "loop" \/
                \A k \in 1..Len(points) : points'[k] = points[k]
          /\ IsPass => currentVel' = nextVel(ver, currentVel, startAngVel, gravity, dt)
          /\ prior # <<>> => prior' = prior]_vars
\* a second call on the same arguments has returned the trajectory of the
\* first, three points or more of a spinning ball
C21_Witness ==
    /\ prior # <<>> /\ Returned /\ Len(points) >= 3 /\ startAngVel # Zero3
    /\ prior[1].pts = points /\ points[1] = startPos

-----------------------------------------------------------------------------
(* Claims about the live simulation (TennisBall useFrame) *)

\* the step is one rendered frame
IsFrame == nFrames' = nFrames + 1

\* C22: on every frame, if the ball's squared speed is at most 0.1 no force is
\* applied; otherwise exactly one force, calculateMagnusForce(velocity,
\* angularVelocity), is applied at the ball's centre.
C22_MagnusPerFrame ==
    [][IsFrame =>
          IF lengthSq(ball.velocity) <= 1000
              THEN applied' = <<>>
              ELSE applied' = <<[force |-> calculateMagnusForce(ver, ball.velocity,
                                                                ball.angularVelocity),
                                 at |-> Zero3]>>]_vars
\* a frame of a struck, spinning ball: one force, not zero
C22_Witness ==
    /\ lastReset # <<>> /\ nFrames >= 1 /\ Len(applied) = 1
    /\ applied[1].force # Zero3

-----------------------------------------------------------------------------
(* Claims about overlapping contacts on the ball *)

\* C23: a contact on the ball that comes while an earlier contact's reset is
\* still pending overwrites the deformation: intensity and direction are those
\* of the new contact alone, whatever they were before.
C23_LastWriteWins ==
    [][(IsBallContact /\ \E j \in 1..Len(timers) : timers[j].kind = "squishReset") =>
          /\ uSquish' = IF Abs(lastContact'[1].impactVelocity) >= 80000 THEN 4000
                        ELSE Abs(lastContact'[1].impactVelocity) \div 20
          /\ uDirection' = lastContact'[1].contactNormal]_vars
\* a weaker, differently directed contact 50 ms after a strong one
C23_Witness ==
    /\ nContacts = 2 /\ lastContact[1].on = "ball" /\ lastContact[1].at = 50
    /\ lastContact[1].squishBefore = 4000 /\ uSquish = 1000
    /\ uDirection = Vec(6000, 8000, 0)
    /\ Len(timers) = 2 /\ timers[1].kind = "squishReset" /\ timers[1].due = 100

\* C24: the deformation written by the latest contact on the ball stays in
\* effect for the full 100 ms after that contact: until then the intensity is
\* the one that contact wrote, whatever earlier contacts have scheduled.
C24_WindowRestarts ==
    (lastContact # <<>> /\ lastContact[1].on = "ball"
       /\ now < lastContact[1].at + 100) =>
          uSquish = squishAmount(lastContact[1].impactVelocity)

-----------------------------------------------------------------------------
(* Claims about handleSwing and its two timeouts *)

C26_OneImpactPending ==
    /\ [](Pending(timers, "impact") <= 1)
    /\ [][nSwings' # nSwings => (~isSwinging /\ timers = <<>>)]_vars
\* the second swing of a run, started after the first had ended, is in flight
C26_Witness ==
    /\ nSwings = 2 /\ nImpacts = 1 /\ isSwinging /\ Pending(timers, "impact") = 1

-----------------------------------------------------------------------------
(* Claims about the shot handed to predictTrajectory and to reset *)

\* the topspin case of the spin axis choice
TopspinCase(p) == p.spinType # "Slice" /\ p.swingPathAngle >= p.racketAngle

\* C27: in the topspin case the angular velocity handed to predictTrajectory
\* and to reset points along -X (x <= 0), so that the Magnus force on a ball
\* travelling toward -Z has a vertical component <= 0.
C27_TopspinAlongMinusX ==
    /\ TopspinCase(params) =>
          /\ preview.startAngVel.x <= 0
          /\ preview.startVel.z < 0 =>
                calculateMagnusForce(ver, preview.startVel, preview.startAngVel).y <= 0
    /\ (shot # <<>> /\ TopspinCase(shot[1].params)) => lastReset[1].angVel.x <= 0

\* C28: the ball state applied when the impact callback fires is computed from
\* the parameters and start position that were current when the swing was
\* triggered; changes made during the delay recompute the prediction and leave
\* the pending shot as it was.
C28_ShotFixedAtTrigger ==
    /\ [][nSwings' = nSwings + 1 =>
            /\ timers'[Len(timers) + 1].params = params
            /\ timers'[Len(timers) + 1].ballStartPos = ballStartPos]_vars
    /\ [][(params' # params \/ ballStartPos' # ballStartPos) =>
            /\ timers' = timers
            /\ preview' = predictionStart(ver, params', ballStartPos')]_vars
    /\ [][nImpacts' # nImpacts =>
            /\ shot'[1].params = timers[NextTimer].params
            /\ shot'[1].ballStartPos = timers[NextTimer].ballStartPos
            /\ lastReset'[1] = swingState(ver, timers[NextTimer].params,
                                          timers[NextTimer].ballStartPos)
            /\ ball'.position = timers[NextTimer].ballStartPos]_vars
\* an impact applied after the parameters and the start position had both been
\* changed during its delay
C28_Witness ==
    /\ nImpacts = 1 /\ shot # <<>>
    /\ shot[1].params # shot[1].paramsNow
    /\ shot[1].ballStartPos # shot[1].ballStartPosNow
    /\ lastReset[1].pos = shot[1].ballStartPos
    /\ preview.startPos = shot[1].ballStartPosNow
    /\ lastReset[1].vel # preview.startVel

\* C29: for the same parameters and start position, the start position,
\* velocity and angular velocity the prediction effect passes to
\* predictTrajectory equal the position, velocity and angular velocity the
\* swing passes to reset.
C29_PredictionMatchesLaunch ==
    (shot # <<>> /\ shot[1].params = params /\ shot[1].ballStartPos = ballStartPos) =>
        /\ lastReset[1].pos = preview.startPos
        /\ lastReset[1].vel = preview.startVel
        /\ lastReset[1].angVel = preview.startAngVel
\* a spinning serve from the serve position, launched as predicted
C29_Witness ==
    /\ shot # <<>> /\ shot[1].params = params /\ shot[1].ballStartPos = ballStartPos
    /\ activePreset = "Serve" /\ params = PRESETS.Serve
    /\ lastReset[1].angVel # Zero3 /\ lastReset[1].pos = Vec(0, 2800000, 11000000)
    /\ lastReset[1].vel = preview.startVel

-----------------------------------------------------------------------------
(* Claims about the Target's clear timers *)

=============================================================================
